---- MODULE Spec2Model ----
(***************************************************************************)
(* Model of audio_photo_logger.ino: the XIAO ESP32S3 Sense firmware that   *)
(* takes a photo every PHOTO_INTERVAL ms and records a WAV clip when the   *)
(* microphone sample exceeds SOUND_THRESHOLD.                              *)
(*                                                                         *)
(* setup() is modelled as the steps SetupSerial, SetupI2S, SetupCamera,    *)
(* SetupSD; one pass of loop() as LoopPhoto (timer check and photo),       *)
(* LoopPoll and LoopTest (non-blocking sample read, threshold test),       *)
(* RecordWav (record_wav and the counter increment) and Cooldown           *)
(* (delay(1000)).                                                          *)
(* The hardware (clock, camera, microphone, SD card, PSRAM allocator) is   *)
(* the environment: its answers are chosen with \E from small sets.        *)
(***************************************************************************)
EXTENDS Integers, Sequences, FiniteSets, TLC

(* ---------- SETTINGS (the #define block) ---------- *)
RECORD_TIME == 10
SAMPLE_RATE == 16000
SAMPLE_BITS == 16
WAV_HEADER_SIZE == 44
VOLUME_GAIN == 3
PHOTO_INTERVAL == 10000
SOUND_THRESHOLD == 5000
COOLDOWN_MS == 1000

(* ---------- the C types ---------- *)
\* On the ESP32-S3 unsigned long, uint32_t and size_t are 32 bits wide. A
\* 32-bit unsigned value is kept as its two 16-bit halves, so that every
\* operation below is exact modulo 2^32.
Pow2(n) == 2 ^ n
U16_MOD == Pow2(16)
U8_MOD == Pow2(8)
\* the 32-bit unsigned value of a literal 0 <= n < 2^31
U32(n) == [hi |-> n \div U16_MOD, lo |-> n % U16_MOD]
\* a + b and a - b on 32-bit unsigned values
Add32(a, b) ==
  LET lo == a.lo + b.lo
      hi == a.hi + b.hi + (lo \div U16_MOD)
  IN [hi |-> hi % U16_MOD, lo |-> lo % U16_MOD]
Sub32(a, b) ==
  LET lo == a.lo - b.lo
      hi == a.hi - b.hi - (IF lo < 0 THEN 1 ELSE 0)
  IN [hi |-> hi % U16_MOD, lo |-> lo % U16_MOD]
\* a >= b on 32-bit unsigned values
Ge32(a, b) == a.hi > b.hi \/ (a.hi = b.hi /\ a.lo >= b.lo)

(* ---------- bounds of the model ---------- *)
\* passes of loop() explored
MaxTicks == 4
\* samples in a buffer handed to the gain loop
MaxSamples == 2
\* sound triggers offered by the environment
MaxRec == 1
\* run-time faults (no frame, open failure, allocation failure, short read)
MaxFaults == 1

(* ---------- inputs of the environment ---------- *)
\* millis() at the first pass of loop(): setup() waits for the serial port
\* for an unbounded time, so the clock may be anywhere, also close to wrap.
BootClocks == {U32(0), Sub32(U32(0), U32(PHOTO_INTERVAL))}
\* milliseconds that pass between two readings of millis()
Elapsed == {0, 5000, 10000}
\* int16_t values the non-blocking read may deliver
PollSamples == {0, 5000, -5000, 5001, -5001, -32768}
\* bytes the non-blocking read of sizeof(sample) bytes may report
PollBytes == {0, 2}
\* length in bytes of a camera frame
FrameLens == {1024}

VARIABLES
  pc,             \* position in setup() / loop()
  clock,          \* the value millis() returns
  i2s_state,      \* "untried", "ok", "failed": I2S.begin
  cam_state,      \* "untried", "ok", "failed": esp_camera_init
  sd_state,       \* "untried", "ok", "nomount", "nocard": SD.begin / cardType
  camera_status,  \* global
  sd_status,      \* global
  fileCount,      \* global
  lastPhotoTime,  \* global
  now,            \* loop(): local
  sample,         \* loop(): local
  bytes_read,     \* loop(): local
  files,          \* the files created on the SD card, in order of creation
  ticks,          \* history: the value of now of every pass of loop()
  nPhoto,         \* history: number of times the photo timer fired
  nSound,         \* history: number of sound triggers
  nReads,         \* history: number of bulk reads performed
  photoFired,     \* history: the latest pass fired the photo timer
  photoLag,       \* history: now - lastPhotoTime at the latest firing
  lastRec,        \* history: how the latest record_wav ended
  recorded,       \* history: the latest completed pass of loop() made a recording
  faults,         \* history: run-time faults injected so far
  wav_size,       \* generate_wav_header: argument
  sample_rate,    \* generate_wav_header: argument
  wav_header,     \* generate_wav_header: the 44 bytes produced
  sinceRecStart,  \* history: ms gone by since the latest record_wav began (-1: none yet)
  lastRecMs,      \* history: ms the latest record_wav took
  sincePhoto,     \* history: ms gone by since the photo timer last fired (-1: never)
  trueLag,        \* history: sincePhoto as it was at the latest timer check
  rec_raw,        \* record_wav: the bytes of rec_buffer as the bulk read left them
  rec_buffer,     \* record_wav: the bytes of rec_buffer
  rec_len         \* record_wav: sample_size, the number of bytes the bulk read reported

vars == <<pc, clock, i2s_state, cam_state, sd_state, camera_status, sd_status,
          fileCount, lastPhotoTime, now, sample, bytes_read, files, ticks,
          nPhoto, nSound, nReads, photoFired, photoLag, lastRec, recorded,
          faults, wav_size, sample_rate, wav_header, sinceRecStart, lastRecMs,
          sincePhoto, trueLag, rec_raw, rec_buffer, rec_len>>

hwVars == <<i2s_state, cam_state, sd_state>>
globVars == <<camera_status, sd_status, fileCount, lastPhotoTime>>
pollVars == <<sample, bytes_read>>
histVars == <<ticks, nPhoto, nSound, nReads, photoFired, photoLag, lastRec, recorded>>
wavVars == <<wav_size, sample_rate, wav_header>>
timeVars == <<sinceRecStart, lastRecMs, sincePhoto, trueLag>>
gainVars == <<rec_raw, rec_buffer, rec_len>>

(* ---------- arithmetic of the C types ---------- *)
Abs(x) == IF x < 0 THEN -x ELSE x
\* narrowing conversion to uint8_t
U8(x) == x % U8_MOD
\* a count of elapsed milliseconds d ms later (-1: nothing to count from)
Later(x, d) == IF x < 0 THEN x ELSE x + d

(* ---------- WAV HEADER: generate_wav_header ---------- *)
\* character codes of the four tags
RIFF == <<82, 73, 70, 70>>
WAVE == <<87, 65, 86, 69>>
FMT == <<102, 109, 116, 32>>
DATA == <<100, 97, 116, 97>>
\* the four initialisers  x, x >> 8, x >> 16, x >> 24  of a uint8_t array
Bytes4(x) == <<U8(x.lo), U8(x.lo \div U8_MOD), U8(x.hi), U8(x.hi \div U8_MOD)>>
\* uint32_t file_size = wav_size + WAV_HEADER_SIZE - 8
HeaderFileSize(ws) == Sub32(Add32(ws, U32(WAV_HEADER_SIZE)), U32(8))
\* uint32_t byte_rate = SAMPLE_RATE * SAMPLE_BITS / 8: the macro, not the argument
HeaderByteRate(sr) == U32((SAMPLE_RATE * SAMPLE_BITS) \div 8)
generate_wav_header(ws, sr) ==
  RIFF \o Bytes4(HeaderFileSize(ws)) \o WAVE \o FMT
    \o <<16, 0, 0, 0>> \o <<1, 0>> \o <<1, 0>>
    \o Bytes4(sr) \o Bytes4(HeaderByteRate(sr))
    \o <<2, 0>> \o <<16, 0>>
    \o DATA \o Bytes4(ws)

(* ---------- file names: sprintf("/image%d.jpg"), sprintf("/audio%d.wav") ---------- *)
ImageName(n) == "/image" \o ToString(n) \o ".jpg"
AudioName(n) == "/audio" \o ToString(n) \o ".wav"

(* ---------- FILE WRITE: writeFile ---------- *)
\* A file of the card: its name, the index and clock value it was made at,
\* the header bytes and the number of payload bytes written to it, and
\* whether close() was called on it.
FileRec(kind, name, n, t, hdr, len, closed) ==
  [kind |-> kind, name |-> name, n |-> n, t |-> t, header |-> hdr,
   dataLen |-> len, closed |-> closed]
\* fs.open(path, FILE_WRITE); if (!file) return; file.write(data, len); file.close()
writeFile(fs, name, n, t, len, openOk) ==
  IF ~openOk THEN fs
  ELSE Append(fs, FileRec("image", name, n, t, <<>>, len, TRUE))

(* ---------- PHOTO SAVE: photo_save ---------- *)
\* esp_camera_fb_get(); if (!fb) return; writeFile(...)
photo_save(fs, name, n, t, fbOk, len, openOk) ==
  IF ~fbOk THEN fs ELSE writeFile(fs, name, n, t, len, openOk)

(* ---------- AUDIO RECORD: record_wav ---------- *)
\* uint32_t record_size = (SAMPLE_RATE * SAMPLE_BITS / 8) * RECORD_TIME
\* (no intermediate result reaches 2^32 with the settings above)
RecordSize == ((SAMPLE_RATE * SAMPLE_BITS) \div 8) * RECORD_TIME
\* (variant: the shifted sample is clamped to the largest value)
Gain_m(s) == IF s * Pow2(VOLUME_GAIN) >= U16_MOD THEN U16_MOD - 1
             ELSE s * Pow2(VOLUME_GAIN)
\* (*(uint16_t *)(rec_buffer + i)) <<= VOLUME_GAIN
Gain(s) == (s * Pow2(VOLUME_GAIN)) % U16_MOD
ApplyGain(buf) == [i \in 1..Len(buf) |-> Gain(buf[i])]
\* the size generate_wav_header is called with (line 116)
HeaderSizeArg(record_size, sample_size) == record_size
\* The file as record_wav leaves it. The header is written right after the
\* open, before the allocation; on allocation failure the function returns
\* with the header written and without calling close().
record_wav(fs, name, n, t, openOk, mallocOk, sample_size) ==
  LET hdr == generate_wav_header(U32(HeaderSizeArg(RecordSize, sample_size)),
                                 U32(SAMPLE_RATE))
  IN IF ~openOk THEN fs
     ELSE IF ~mallocOk
       THEN Append(fs, FileRec("audio", name, n, t, hdr, 0, FALSE))
       ELSE Append(fs, FileRec("audio", name, n, t, hdr, sample_size, TRUE))
\* bytes the blocking bulk read may report
ReadSizes == {0, 2, RecordSize}
\* milliseconds the bulk read blocks while sample_size bytes arrive
ReadMillis(sample_size) ==
  (sample_size * 1000) \div ((SAMPLE_RATE * SAMPLE_BITS) \div 8)

(* ---------- decisions of setup() and loop() ---------- *)
\* (variant: the failure branch does not stop)
AfterI2SBegin_m(ok) == "setup_cam"
\* if (!I2S.begin(...)) { ...; while (1); }
AfterI2SBegin(ok) == IF ok THEN "setup_cam" ELSE "halt"
\* CameraParameters(); camera_status = true;  whatever esp_camera_init returned
CameraStatusAfter(ok) == TRUE
AfterCameraParameters(ok) == "setup_sd"
\* if (!SD.begin(21)) while (1);  if (SD.cardType() == CARD_NONE) while (1);
AfterSD(st) == IF st = "ok" THEN "loop" ELSE "halt"
\* if (!(camera_status && sd_status)) return;
LoopRuns(cs, ss) == cs /\ ss
\* (variant: > in place of >=)
PhotoDue_m(t, last) == Ge32(Sub32(t, last), U32(PHOTO_INTERVAL + 1))
\* (variant: the deadline is computed first, now >= lastPhotoTime + PHOTO_INTERVAL)
PhotoDue_w(t, last) == Ge32(t, Add32(last, U32(PHOTO_INTERVAL)))
\* if (now - lastPhotoTime >= PHOTO_INTERVAL)
PhotoDue(t, last) == Ge32(Sub32(t, last), U32(PHOTO_INTERVAL))
\* (variant: >= in place of >)
SoundDetected_m(br, smp) == br > 0 /\ Abs(smp) >= SOUND_THRESHOLD
\* if (bytes_read > 0 && abs(sample) > SOUND_THRESHOLD)
SoundDetected(br, smp) == br > 0 /\ Abs(smp) > SOUND_THRESHOLD
\* (variant: the increment is missing)
NextFileCount_m(fc) == fc
\* fileCount++
NextFileCount(fc) == fc + 1
\* (variant: the assignment is missing)
PhotoTimeAfter_m(t, last) == last
\* lastPhotoTime = now, inside the photo branch
PhotoTimeAfter(t, last) == t
\* (variant: the recording restarts the photo timer)
PhotoTimeAfterRecording_m(t, last) == t
\* record_wav and delay(1000) assign nothing to lastPhotoTime
PhotoTimeAfterRecording(t, last) == last

(* ---------- initial state: the global initialisers ---------- *)
Init ==
  /\ pc = "setup_serial"
  /\ clock = U32(0)
  /\ i2s_state = "untried" /\ cam_state = "untried" /\ sd_state = "untried"
  /\ camera_status = FALSE
  /\ sd_status = FALSE
  /\ fileCount = 1
  /\ lastPhotoTime = U32(0)
  /\ now = U32(0) /\ sample = 0 /\ bytes_read = 0
  /\ files = <<>>
  /\ ticks = <<>>
  /\ nPhoto = 0 /\ nSound = 0 /\ nReads = 0
  /\ photoFired = FALSE /\ photoLag = U32(0)
  /\ lastRec = "none" /\ recorded = FALSE
  /\ faults = 0
  /\ wav_size = U32(0) /\ sample_rate = U32(0) /\ wav_header = <<>>
  /\ sinceRecStart = -1 /\ lastRecMs = 0 /\ sincePhoto = -1 /\ trueLag = -1
  /\ rec_raw = <<>> /\ rec_buffer = <<>> /\ rec_len = 0

(* ---------- SETUP ---------- *)
\* Serial.begin(115200); while (!Serial);
SetupSerial ==
  /\ pc = "setup_serial"
  /\ \E c \in BootClocks : clock' = c
  /\ pc' = "setup_i2s"
  /\ UNCHANGED <<hwVars, globVars, now, pollVars, files, histVars, faults, wavVars,
                 timeVars, gainVars>>

\* I2S.setAllPins(...); if (!I2S.begin(...)) { ...; while (1); }
SetupI2S ==
  /\ pc = "setup_i2s"
  /\ \E ok \in BOOLEAN :
       /\ i2s_state' = IF ok THEN "ok" ELSE "failed"
       /\ pc' = AfterI2SBegin(ok)
  /\ UNCHANGED <<clock, cam_state, sd_state, globVars, now, pollVars, files,
                 histVars, faults, wavVars, timeVars, gainVars>>

\* CameraParameters(); camera_status = true;
SetupCamera ==
  /\ pc = "setup_cam"
  /\ \E ok \in BOOLEAN :
       /\ cam_state' = IF ok THEN "ok" ELSE "failed"
       /\ camera_status' = CameraStatusAfter(ok)
       /\ pc' = AfterCameraParameters(ok)
  /\ UNCHANGED <<clock, i2s_state, sd_state, sd_status, fileCount, lastPhotoTime,
                 now, pollVars, files, histVars, faults, wavVars, timeVars, gainVars>>

\* SD.begin(21), SD.cardType(), sd_status = true
SetupSD ==
  /\ pc = "setup_sd"
  /\ \E st \in {"ok", "nomount", "nocard"} :
       /\ sd_state' = st
       /\ pc' = AfterSD(st)
       /\ sd_status' = IF AfterSD(st) = "loop" THEN TRUE ELSE sd_status
  /\ UNCHANGED <<clock, i2s_state, cam_state, camera_status, fileCount,
                 lastPhotoTime, now, pollVars, files, histVars, faults, wavVars,
                 timeVars, gainVars>>

(* ---------- LOOP ---------- *)
\* what the environment may answer, within the fault budget
Outcomes == IF faults < MaxFaults THEN BOOLEAN ELSE {TRUE}
\* a frame buffer is only ever delivered by an initialised camera
FbOutcomes == IF cam_state = "ok" THEN Outcomes ELSE {FALSE}
Cost(ok) == IF ok THEN 0 ELSE 1

\* lines 193-205: the guard, now = millis(), the photo timer
LoopPhoto ==
  /\ pc = "loop"
  /\ Len(ticks) < MaxTicks
  /\ \E d \in Elapsed :
       LET t == Add32(clock, U32(d)) IN
       /\ clock' = t
       /\ sinceRecStart' = Later(sinceRecStart, d)
       /\ IF ~LoopRuns(camera_status, sd_status)
          THEN /\ pc' = "loop"
               /\ sincePhoto' = Later(sincePhoto, d)
               /\ UNCHANGED <<fileCount, lastPhotoTime, now, files, ticks, nPhoto,
                              photoFired, photoLag, faults, trueLag>>
          ELSE /\ pc' = "poll"
               /\ now' = t
               /\ ticks' = Append(ticks, t)
               /\ trueLag' = Later(sincePhoto, d)
               /\ IF PhotoDue(t, lastPhotoTime)
                  THEN \E fbOk \in FbOutcomes, len \in FrameLens :
                       \E openOk \in (IF fbOk /\ cam_state = "ok" THEN Outcomes ELSE {TRUE}) :
                         /\ files' = photo_save(files, ImageName(fileCount), fileCount,
                                                t, fbOk, len, openOk)
                         /\ faults' = faults + (IF cam_state = "ok"
                                                THEN Cost(fbOk) + Cost(openOk) ELSE 0)
                         /\ lastPhotoTime' = PhotoTimeAfter(t, lastPhotoTime)
                         /\ fileCount' = NextFileCount(fileCount)
                         /\ nPhoto' = nPhoto + 1
                         /\ photoFired' = TRUE
                         /\ photoLag' = Sub32(t, lastPhotoTime)
                         /\ sincePhoto' = 0
                  ELSE /\ photoFired' = FALSE
                       /\ sincePhoto' = Later(sincePhoto, d)
                       /\ UNCHANGED <<fileCount, lastPhotoTime, files, nPhoto,
                                      photoLag, faults>>
  /\ UNCHANGED <<hwVars, camera_status, sd_status, pollVars, nSound, nReads,
                 lastRec, recorded, wavVars, lastRecMs, gainVars>>

\* lines 208-210: int16_t sample = 0; size_t bytes_read = 0; and the
\* non-blocking read (timeout 0), which stores a sample only if it read one
LoopPoll ==
  /\ pc = "poll"
  /\ \E br \in PollBytes :
     \E smp \in (IF br = 0 THEN {sample} ELSE PollSamples) :
       /\ bytes_read' = br
       /\ sample' = smp
  /\ pc' = "test"
  /\ UNCHANGED <<clock, hwVars, globVars, now, files, histVars, faults, wavVars,
                 timeVars, gainVars>>

\* line 212: the threshold test; without a trigger loop() returns and its
\* locals are gone
LoopTest ==
  /\ pc = "test"
  /\ IF SoundDetected(bytes_read, sample)
     THEN pc' = "record" /\ UNCHANGED <<pollVars, recorded>>
     ELSE pc' = "loop" /\ sample' = 0 /\ bytes_read' = 0 /\ recorded' = FALSE
  /\ UNCHANGED <<clock, hwVars, globVars, now, files, ticks, nPhoto, nSound, nReads,
                 photoFired, photoLag, lastRec, faults, wavVars, timeVars, gainVars>>

\* lines 213-217: record_wav(audioFile); fileCount++
RecordWav ==
  /\ pc = "record"
  /\ nSound < MaxRec
  /\ \E openOk \in Outcomes :
     \E mallocOk \in (IF openOk THEN Outcomes ELSE {TRUE}) :
     \E sz \in (IF mallocOk /\ openOk /\ faults < MaxFaults THEN ReadSizes
                ELSE IF mallocOk THEN {RecordSize} ELSE {0}) :
       /\ files' = record_wav(files, AudioName(fileCount), fileCount, clock,
                              openOk, mallocOk, sz)
       /\ faults' = faults + Cost(openOk) + Cost(mallocOk)
                      + (IF mallocOk /\ sz < RecordSize THEN 1 ELSE 0)
       /\ nReads' = IF mallocOk THEN nReads + 1 ELSE nReads
       /\ lastRec' = IF mallocOk THEN "done" ELSE "nomem"
       /\ clock' = IF mallocOk THEN Add32(clock, U32(ReadMillis(sz))) ELSE clock
       /\ LET ms == IF mallocOk THEN ReadMillis(sz) ELSE 0 IN
            /\ sinceRecStart' = ms
            /\ lastRecMs' = ms
            /\ sincePhoto' = Later(sincePhoto, ms)
       /\ wav_size' = U32(HeaderSizeArg(RecordSize, sz))
       /\ sample_rate' = U32(SAMPLE_RATE)
       /\ wav_header' = generate_wav_header(U32(HeaderSizeArg(RecordSize, sz)),
                                            U32(SAMPLE_RATE))
  /\ lastPhotoTime' = PhotoTimeAfterRecording(clock, lastPhotoTime)
  /\ fileCount' = NextFileCount(fileCount)
  /\ nSound' = nSound + 1
  /\ recorded' = TRUE
  /\ pc' = "cooldown"
  /\ UNCHANGED <<hwVars, camera_status, sd_status, now, pollVars, ticks, nPhoto,
                 photoFired, photoLag, trueLag, gainVars>>

\* (variant: loop() returns after the recording without the delay)
Cooldown_m ==
  /\ pc = "cooldown"
  /\ clock' = clock
  /\ pc' = "loop"
  /\ sample' = 0 /\ bytes_read' = 0
  /\ UNCHANGED <<hwVars, globVars, now, files, histVars, faults, wavVars,
                 timeVars, gainVars>>
\* line 218: delay(1000); then loop() returns and its locals are gone
Cooldown ==
  /\ pc = "cooldown"
  /\ clock' = Add32(clock, U32(COOLDOWN_MS))
  /\ pc' = "loop"
  /\ sample' = 0 /\ bytes_read' = 0
  /\ sinceRecStart' = Later(sinceRecStart, COOLDOWN_MS)
  /\ sincePhoto' = Later(sincePhoto, COOLDOWN_MS)
  /\ UNCHANGED <<hwVars, globVars, now, files, histVars, faults, wavVars,
                 lastRecMs, trueLag, gainVars>>

Next ==
  \/ SetupSerial
  \/ SetupI2S
  \/ SetupCamera
  \/ SetupSD
  \/ LoopPhoto
  \/ LoopPoll
  \/ LoopTest
  \/ RecordWav
  \/ Cooldown

Spec == Init /\ [][Next]_vars

(* ---------- the header encoder on its own ---------- *)
\* arguments generate_wav_header is applied to
WavSizes == {[hi |-> h, lo |-> l] : h \in {0, 4, 255, 256, 65535},
                                    l \in {0, 1, 255, 57856, 65535}}
WavRates == {U32(8000), U32(16000), U32(44100), U32(48000)}

InitWav ==
  /\ pc = "wav_call"
  /\ clock = U32(0)
  /\ i2s_state = "untried" /\ cam_state = "untried" /\ sd_state = "untried"
  /\ camera_status = FALSE
  /\ sd_status = FALSE
  /\ fileCount = 1
  /\ lastPhotoTime = U32(0)
  /\ now = U32(0) /\ sample = 0 /\ bytes_read = 0
  /\ files = <<>>
  /\ ticks = <<>>
  /\ nPhoto = 0 /\ nSound = 0 /\ nReads = 0
  /\ photoFired = FALSE /\ photoLag = U32(0)
  /\ lastRec = "none" /\ recorded = FALSE
  /\ faults = 0
  /\ wav_size \in WavSizes
  /\ sample_rate \in WavRates
  /\ wav_header = <<>>
  /\ sinceRecStart = -1 /\ lastRecMs = 0 /\ sincePhoto = -1 /\ trueLag = -1
  /\ rec_raw = <<>> /\ rec_buffer = <<>> /\ rec_len = 0

WavGenerate ==
  /\ pc = "wav_call"
  /\ wav_header' = generate_wav_header(wav_size, sample_rate)
  /\ pc' = "wav_done"
  /\ UNCHANGED <<clock, hwVars, globVars, now, pollVars, files, histVars, faults,
                 wav_size, sample_rate, timeVars, gainVars>>

NextWav == WavGenerate

SpecWav == InitWav /\ [][NextWav]_vars

(* ---------- reading a header back ---------- *)
\* the 32-bit and 16-bit little-endian integers at bytes i.. of h (1-based)
LE32(h, i) == [hi |-> h[i + 2] + U8_MOD * h[i + 3], lo |-> h[i] + U8_MOD * h[i + 1]]
LE16(h, i) == h[i] + U8_MOD * h[i + 1]
\* the number a 32-bit value below 2^31 stands for
Val(x) == x.hi * U16_MOD + x.lo

(* ---------- the gain loop of record_wav on its own ---------- *)
\* buf with the uint16_t v stored little-endian at byte offset i (0-based)
StoreLE16(buf, i, v) ==
  [buf EXCEPT ![i + 1] = U8(v), ![i + 2] = U8(v \div U8_MOD)]
\* for (uint32_t i = 0; i < sample_size; i += 2)
\*   (*(uint16_t *)(rec_buffer + i)) <<= VOLUME_GAIN;
RECURSIVE GainFrom(_, _, _)
GainFrom(buf, i, n) ==
  IF i >= n THEN buf
  ELSE GainFrom(StoreLE16(buf, i, Gain(LE16(buf, i + 1))), i + 2, n)
GainLoop(buf, n) == GainFrom(buf, 0, n)

\* uint16_t bit patterns the bulk read may deliver
RawSamples == {0, 1, 4660, 8191, 8192, 32767, 32768, 65535}
\* the bytes, little-endian, of a sequence of samples
SampleBytes(smps) ==
  [i \in 1..(2 * Len(smps)) |->
     IF i % 2 = 1 THEN U8(smps[(i + 1) \div 2]) ELSE U8(smps[i \div 2] \div U8_MOD)]
ReadBuffers ==
  {SampleBytes(smps) : smps \in UNION {[1..k -> RawSamples] : k \in 0..MaxSamples}}

InitGain ==
  /\ pc = "gain_call"
  /\ clock = U32(0)
  /\ i2s_state = "untried" /\ cam_state = "untried" /\ sd_state = "untried"
  /\ camera_status = FALSE
  /\ sd_status = FALSE
  /\ fileCount = 1
  /\ lastPhotoTime = U32(0)
  /\ now = U32(0) /\ sample = 0 /\ bytes_read = 0
  /\ files = <<>>
  /\ ticks = <<>>
  /\ nPhoto = 0 /\ nSound = 0 /\ nReads = 0
  /\ photoFired = FALSE /\ photoLag = U32(0)
  /\ lastRec = "none" /\ recorded = FALSE
  /\ faults = 0
  /\ wav_size = U32(0) /\ sample_rate = U32(0) /\ wav_header = <<>>
  /\ sinceRecStart = -1 /\ lastRecMs = 0 /\ sincePhoto = -1 /\ trueLag = -1
  /\ rec_raw \in ReadBuffers
  /\ rec_buffer = rec_raw
  /\ rec_len = Len(rec_raw)

GainApply ==
  /\ pc = "gain_call"
  /\ rec_buffer' = GainLoop(rec_buffer, rec_len)
  /\ pc' = "gain_done"
  /\ UNCHANGED <<clock, hwVars, globVars, now, pollVars, files, histVars, faults,
                 wavVars, timeVars, rec_raw, rec_len>>

NextGain == GainApply

SpecGain == InitGain /\ [][NextGain]_vars

(* ====================================================================== *)
(* Properties                                                             *)
(* ====================================================================== *)
LoopBodyPcs == {"poll", "test", "record", "cooldown"}
IsAudio(f) == f.kind = "audio"
IsImage(f) == f.kind = "image"

\* C1: the indices embedded in the names of the files are strictly
\* increasing in the order the files were made, no two files of either kind
\* share an index or a name, every name is the index formatted for its kind,
\* every index used is below the counter, and the counter never goes down.
C1_IndicesOrdered ==
  /\ \A i \in 1..Len(files) :
       /\ files[i].name = (IF IsImage(files[i]) THEN ImageName(files[i].n)
                           ELSE AudioName(files[i].n))
       /\ files[i].n >= 1
       /\ files[i].n < fileCount
  /\ \A i, j \in 1..Len(files) :
       i < j => (files[i].n < files[j].n /\ files[i].name # files[j].name)
C1_SequenceMonotonic ==
  [](C1_IndicesOrdered) /\ [][fileCount' >= fileCount]_vars
\* an image, then a recording, then an image again
C1_Witness ==
  \E i, j, k \in 1..Len(files) :
    /\ i < j /\ j < k
    /\ IsImage(files[i]) /\ IsAudio(files[j]) /\ IsImage(files[k])

\* C2: a pass of loop() that reads the clock value now' fires the photo
\* timer exactly when now' - lastPhotoTime >= PHOTO_INTERVAL (unsigned), and
\* a pass at the same clock value as the pass before, which fired, does not.
C2_TimerGating ==
  [][(pc = "loop" /\ pc' = "poll") =>
       /\ nPhoto' \in {nPhoto, nPhoto + 1}
       /\ (nPhoto' = nPhoto + 1) <=>
            Ge32(Sub32(now', lastPhotoTime), U32(PHOTO_INTERVAL))
       /\ photoFired' <=> (nPhoto' = nPhoto + 1)
       /\ (photoFired /\ now' = now) => nPhoto' = nPhoto]_vars
\* the pass before fired at this same clock value, and this pass did not
C2_Witness ==
  /\ pc = "poll"
  /\ ~photoFired
  /\ Len(ticks) >= 2
  /\ ticks[Len(ticks)] = ticks[Len(ticks) - 1]
  /\ lastPhotoTime = now
  /\ nPhoto >= 1

\* C3: the threshold test sends the pass to the recording exactly when a
\* sample was read and its magnitude is above SOUND_THRESHOLD; a sample of
\* magnitude exactly SOUND_THRESHOLD and a read of zero bytes do not.
C3_ThresholdGating ==
  [][pc = "test" =>
       /\ (pc' = "record") <=>
            (bytes_read > 0 /\ (sample > SOUND_THRESHOLD \/ sample < -SOUND_THRESHOLD))
       /\ (sample = SOUND_THRESHOLD \/ sample = -SOUND_THRESHOLD) => pc' = "loop"
       /\ bytes_read = 0 => pc' = "loop"]_vars
\* the most negative sample has triggered a recording
C3_Witness ==
  /\ pc = "cooldown"
  /\ bytes_read > 0
  /\ sample = -32768
  /\ nSound = 1

\* C4: after passes at t = 0, 5000, 10000, 15000 without a sound trigger the
\* photo timer has fired once, at t = 10000 with index 1, no audio file
\* exists and the counter is 2; with a working camera and card the files are
\* exactly /image1.jpg, written at t = 10000.
ScenarioTicks == <<U32(0), U32(5000), U32(10000), U32(15000)>>
C4_Scenario ==
  (pc = "loop" /\ ticks = ScenarioTicks /\ nSound = 0) =>
    /\ fileCount = 2
    /\ nPhoto = 1
    /\ lastPhotoTime = U32(10000)
    /\ \A i \in 1..Len(files) : ~IsAudio(files[i])
    /\ Len(files) <= 1
    /\ (cam_state = "ok" /\ faults = 0) =>
         /\ Len(files) = 1
         /\ IsImage(files[1])
         /\ files[1].name = "/image1.jpg"
         /\ files[1].t = U32(10000)
C4_Witness ==
  /\ pc = "loop" /\ ticks = ScenarioTicks /\ nSound = 0
  /\ cam_state = "ok" /\ faults = 0
  /\ Len(files) = 1 /\ files[1].name = "/image1.jpg"

\* C5 (as claimed): the body of loop() runs only after both the camera and
\* the card initialised, and after a failure of either the system never
\* gets into the body of loop(): no pass, no capture, no file.
C5_StartupPrecondition ==
  /\ (pc \in LoopBodyPcs \/ ticks # <<>>) => (cam_state = "ok" /\ sd_state = "ok")
  /\ (cam_state = "failed" \/ sd_state \in {"nomount", "nocard"}) =>
       (pc \notin LoopBodyPcs /\ ticks = <<>> /\ files = <<>> /\ nPhoto = 0)

\* C6: when the microphone fails to initialise the system is halted for
\* good: the camera and the card are never initialised, no pass of loop()
\* runs, and no step is possible.
C6_AudioInitFailureHalts ==
  i2s_state = "failed" =>
    /\ pc = "halt"
    /\ cam_state = "untried" /\ sd_state = "untried"
    /\ ~camera_status /\ ~sd_status
    /\ ticks = <<>> /\ files = <<>>
    /\ ~ENABLED Next
C6_Witness == i2s_state = "failed" /\ pc = "halt"

\* C7 (as claimed): the header produced for (sample_rate, SAMPLE_BITS,
\* wav_size) has file_size = wav_size + 36 and byte_rate = sample_rate *
\* SAMPLE_BITS / 8, and reading its little-endian fields back gives the
\* sample rate, the bit depth and the data size it was made for.
C7_HeaderCorrect ==
  pc = "wav_done" =>
    /\ Len(wav_header) = WAV_HEADER_SIZE
    /\ LE32(wav_header, 5) = Add32(wav_size, U32(36))
    /\ LE32(wav_header, 29) = U32((Val(sample_rate) * SAMPLE_BITS) \div 8)
    /\ LE32(wav_header, 25) = sample_rate
    /\ LE16(wav_header, 35) = SAMPLE_BITS
    /\ LE32(wav_header, 41) = wav_size

\* C8 (as claimed): in every audio file a recording wrote its payload to,
\* the header's data_size is the number of payload bytes and its file_size
\* is that number + 36.
C8_HeaderForBytesRead ==
  \A i \in 1..Len(files) :
    (IsAudio(files[i]) /\ files[i].closed) =>
      /\ LE32(files[i].header, 41) = U32(files[i].dataLen)
      /\ LE32(files[i].header, 5) = U32(files[i].dataLen + 36)

C10_AllocFailureWritesNothing ==
  (pc = "cooldown" /\ lastRec = "nomem") =>
    /\ \A i \in 1..Len(files) :
         (IsAudio(files[i]) /\ files[i].n = fileCount - 1) =>
           (files[i].header = <<>> /\ files[i].dataLen = 0)
    /\ ENABLED Next

\* C11 (as claimed): the first pass of loop() after startup fires the photo
\* timer.
C11_FirstTickTakesPhoto ==
  (Len(ticks) = 1 /\ pc = "poll") => (photoFired /\ nPhoto = 1)
\* C11 (amended): the first pass of loop() fires the photo timer exactly
\* when the clock value it reads is at least PHOTO_INTERVAL, lastPhotoTime
\* being 0 until then; a first pass earlier than that takes no photo.
C11_FirstTickIffIntervalPassed ==
  (Len(ticks) = 1 /\ pc = "poll") =>
    /\ photoFired <=> (now.hi > 0 \/ now.lo >= PHOTO_INTERVAL)
    /\ nPhoto = (IF photoFired THEN 1 ELSE 0)
    /\ fileCount = (IF photoFired THEN 2 ELSE 1)
    /\ lastPhotoTime = (IF photoFired THEN now ELSE U32(0))
\* the first pass came at t = 10000 exactly and took the first photo
C11_Witness ==
  /\ Len(ticks) = 1 /\ pc = "poll"
  /\ now = U32(PHOTO_INTERVAL)
  /\ photoFired
  /\ Len(files) = 1 /\ files[1].name = "/image1.jpg"

\* the latest firing of the photo timer left no image file
LastPhotoFailed ==
  /\ nPhoto > 0
  /\ ~\E i \in 1..Len(files) : IsImage(files[i]) /\ files[i].t = lastPhotoTime

\* C12: a pass whose photo timer fires and whose capture writes no image
\* file still sets lastPhotoTime to now and adds one to the counter; after
\* it, a pass that comes before PHOTO_INTERVAL has elapsed again since that
\* attempt makes no further attempt.
C12_FailedCaptureNotRetried ==
  [][(pc = "loop" /\ pc' = "poll") =>
       /\ (nPhoto' = nPhoto + 1 /\ files' = files) =>
            (lastPhotoTime' = now' /\ fileCount' = fileCount + 1)
       /\ (LastPhotoFailed /\ ~Ge32(Sub32(now', lastPhotoTime), U32(PHOTO_INTERVAL))) =>
            (nPhoto' = nPhoto /\ files' = files /\ fileCount' = fileCount
               /\ lastPhotoTime' = lastPhotoTime)]_vars
\* the camera delivered no frame; index 1 is used up, no file exists, and
\* the pass after it, 5000 ms later, did not try again
C12_Witness ==
  /\ pc = "poll"
  /\ cam_state = "ok"
  /\ faults = 1
  /\ LastPhotoFailed
  /\ ~photoFired
  /\ files = <<>>
  /\ fileCount = 2
  /\ Len(ticks) >= 2
  /\ now = Add32(lastPhotoTime, U32(5000))

C13_GainWraps ==
  pc = "gain_done" =>
    /\ Len(rec_buffer) = Len(rec_raw)
    /\ \A k \in 1..(rec_len \div 2) :
         LET s == rec_raw[2 * k - 1] + 256 * rec_raw[2 * k]
             g == rec_buffer[2 * k - 1] + 256 * rec_buffer[2 * k]
         IN /\ g = (s * 8) % 65536
            /\ s = 0 => g = 0
            /\ s = 32767 => g = 65528
            /\ s = 32768 => g = 0
\* a buffer holding 0x7FFF and 0x8000 came out as 0xFFF8 and 0x0000
C13_Witness ==
  /\ pc = "gain_done"
  /\ rec_len = 4
  /\ rec_raw = <<255, 127, 0, 128>>
  /\ rec_buffer = <<248, 255, 0, 0>>

\* C14: after every sound trigger the delay of COOLDOWN_MS follows the
\* recording before the loop checks the photo timer or polls the microphone
\* again: from the return of record_wav nothing but the delay runs, and at
\* every later timer check, poll and threshold test at least the time the
\* recording took plus COOLDOWN_MS has passed since the recording started, so
\* a second recording starts no sooner than that (RECORD_TIME seconds plus
\* COOLDOWN_MS after a recording whose bulk read filled the buffer).
C14_CooldownAfterRecording ==
  nSound >= 1 =>
    /\ pc = "cooldown" => sinceRecStart = lastRecMs
    /\ pc \in {"loop", "poll", "test", "record"} =>
         /\ sinceRecStart >= lastRecMs + COOLDOWN_MS
         /\ (lastRec = "done" /\ files # <<>> /\ files[Len(files)].closed
               /\ files[Len(files)].dataLen = RecordSize
               /\ IsAudio(files[Len(files)])
               /\ files[Len(files)].n = fileCount - 1)
              => sinceRecStart >= RECORD_TIME * 1000 + COOLDOWN_MS
\* a second sound trigger right after the delay: the loud sample was polled
\* exactly the recording time plus the delay after the first recording began
C14_Witness ==
  /\ pc = "record"
  /\ nSound = 1
  /\ lastRecMs = RECORD_TIME * 1000
  /\ sinceRecStart = RECORD_TIME * 1000 + COOLDOWN_MS

\* C15: a file that cannot be opened for writing makes the operation give up
\* without writing and without halting: a photo whose file did not open goes
\* straight on to the audio poll, and a recording whose file did not open
\* returns to the loop without having allocated, read the microphone or
\* blocked, leaving the card as it was.
C15_FailedOpenAbandons ==
  [][/\ (pc = "loop" /\ nPhoto' = nPhoto + 1 /\ files' = files) => pc' = "poll"
     /\ (pc = "record" /\ files' = files) =>
          /\ pc' = "cooldown"
          /\ nReads' = nReads
          /\ clock' = clock]_vars

C18_TimerCorrectAcrossWrap ==
  (pc = "poll" /\ trueLag >= 0) =>
    /\ photoFired <=> trueLag >= PHOTO_INTERVAL
    /\ photoFired => photoLag = U32(trueLag)
\* a photo fired on time although the clock wrapped since the last one: now is
\* numerically below the time that has passed
C18_Witness ==
  /\ pc = "poll"
  /\ photoFired
  /\ nPhoto >= 2
  /\ trueLag = PHOTO_INTERVAL
  /\ now.hi = 0 /\ now.lo < PHOTO_INTERVAL
  /\ lastPhotoTime = now

====
